---- MODULE Spec2Model ----
(***************************************************************************)
(* Real-time conversation / presence engine of the messaging backend:      *)
(* socket.io handlers (join/leave/send/read/typing/presence), the typing   *)
(* sweep, the handshake middleware and the refresh-token routes, and the   *)
(* browser client's ApiClient, socket provider and hooks, as a state       *)
(* machine.                                                                *)
(*                                                                         *)
(* Every `await` of a handler is a suspension point of the node event      *)
(* loop: a handler is a task whose pc moves from one await to the next,    *)
(* and the synchronous code between two awaits is one atomic action.       *)
(***************************************************************************)
EXTENDS Integers, Sequences, FiniteSets, TLC

(***************************************************************************)
(* Bounds of the model.                                                    *)
(***************************************************************************)
MaxOps == 3        \* client requests (events, connects, HTTP calls) per run
MaxFail == 1       \* store operations that throw per run
MaxEstablishedOps == 2   \* client requests per run that starts from a server in use
MaxClock == 1      \* minutes the clock advances per run of the read handlers
MaxCalls == 3      \* calls of refreshAccessToken per run of the client
MaxViewCalls == 3  \* calls the chat view makes to the socket hook per run
MaxTypingOps == 4  \* calls of startTyping / stopTyping / forceStopTyping per run
MaxSweepOps == 2   \* runs of cleanupTypingActivities and typing_start events beside them per run
MaxSweepClock == 6 \* minutes the clock advances per run with the sweep

None == "none"

\* The rows of the external store that exist before the run.
Users == {"u1", "u2", "u3"}
Convs == {"cv1", "cv2"}
Participants(cv) == IF cv = "cv1" THEN {"u1", "u2"} ELSE {"u1", "u3"}

\* Accepted friendships.
Friends(u) == IF u = "u1" THEN {"u2", "u3"} ELSE {"u1"}

\* Socket ids, and the user whose access token each one presents.
Conns == {"s1", "s2", "s3"}
TokenUser(s) == IF s = "s2" THEN "u2" ELSE "u1"

\* send_message payloads: messageType, content, fileUrl ("" is absent).
TextMsg == [messageType |-> "text", content |-> "hi", fileUrl |-> ""]
EmptyText == [messageType |-> "text", content |-> "", fileUrl |-> ""]
FileMsg == [messageType |-> "file", content |-> "", fileUrl |-> "url"]
FileNoUrl == [messageType |-> "file", content |-> "hi", fileUrl |-> ""]
Payloads == {TextMsg, EmptyText, FileMsg, FileNoUrl}

VARIABLES
    connected,      \* sockets of the namespace (socket.connected)
    userId,         \* socket.userId, None until authenticateSocket sets it
    rooms,          \* socket.rooms: socket -> set of room names
    isOnline,       \* user.isOnline column
    messages,       \* message table, in creation order
    readReceipts,   \* messageReadReceipt table: [messageId, userId, readAt]
    userActivity,   \* userActivity rows (activityType TYPING): [userId, conversationId]
    refreshTokens,  \* refreshToken table
    tasks,          \* handler invocations, in arrival order
    log,            \* events emitted by the server, in emission order
    fails,          \* store operations that have thrown so far
    now,            \* the clock (new Date()), in minutes
    held,           \* refresh JWTs the auth routes have returned to clients
    joined,         \* history: <<socket, room>> of every join that succeeded
    client          \* the browser client: stored tokens, ApiClient, connectSocket

vars == <<connected, userId, rooms, isOnline, messages, readReceipts, userActivity,
          refreshTokens, tasks, log, fails, now, held, joined, client>>

(***************************************************************************)
(* Room names.  A name is a sequence of segments, so that the prefix test  *)
(* of handleUserOffline is computed on the name join_conversation used.    *)
(***************************************************************************)
ConversationRoom(conversationId) == <<conversationId>>
UserRoom(u) == <<"user:", u>>
StartsWithConversationPrefix(room) == Len(room) > 1 /\ room[1] = "conversation:"

(***************************************************************************)
(* socket.io emitters: the sockets an emit reaches.                        *)
(***************************************************************************)
InRoom(room) == {c \in connected : room \in rooms[c]}
IoTo(room) == InRoom(room)
SocketTo(s, room) == InRoom(room) \ {s}
SocketEmit(s) == {s} \cap connected

Event(ev, s, room, to, t) ==
    [ev |-> ev, by |-> s, room |-> room, to |-> to, task |-> t]

(***************************************************************************)
(* Tasks.                                                                  *)
(***************************************************************************)
\* kind, conn, conv, arg: the request; pc: the await the handler is suspended
\* at; res: how it ended.  snap and after are history: what the handler read
\* when it passed a point the properties speak of, and the requests that had
\* been answered when this one arrived.
Task(kind, s, cv, pc, arg) ==
    [kind |-> kind, conn |-> s, conv |-> cv, pc |-> pc, res |-> None,
     arg |-> arg, snap |-> {}, after |-> {u \in 1..Len(tasks) : tasks[u].res # None}]

TaskIds == 1..Len(tasks)
NewTask == Len(tasks) + 1
Done(t) == tasks[t].res # None
At(t, kind, pc) == tasks[t].kind = kind /\ tasks[t].pc = pc /\ ~Done(t)
Finish(t, res) == [tasks EXCEPT ![t].pc = "done", ![t].res = res]
\* the store operation awaited at pc throws: the handler ends in its catch
Fail(t) == [tasks EXCEPT ![t].res = "failed"]
CanStart == Len(tasks) < MaxOps
CanFail == fails < MaxFail
Quiescent == \A t \in TaskIds : Done(t)

\* variant: the conversation is looked up by id alone
findConversationById(conversationId, u) == conversationId \in Convs

\* prisma.conversation.findFirst({id, OR: [participantOne, participantTwo]})
findConversation(conversationId, u) ==
    conversationId \in Convs /\ u \in Participants(conversationId)

(***************************************************************************)
(* The browser client.  access and refreshToken are the localStorage       *)
(* entries, isAuthenticated the auth store's flag, refreshPromise the field*)
(* of ApiClient.  requests are the POST /api/auth/refresh requests sent,   *)
(* calls the invocations of refreshAccessToken with the promise each was   *)
(* handed.  sock is where connectSocket stands, wait the call it awaits,   *)
(* cycles the refresh-and-reconnect rounds since the socket last connected.*)
(* socket is the socket of the SocketContext (0 is null; each io() makes   *)
(* the next one), current the ref currentConversationId of useSocketEvents,*)
(* emitted the events the hook has emitted, each with the socket it was    *)
(* emitted on.  open is the conversation the chat view shows and asked the *)
(* socket on which the view last requested its room.  typing is the state  *)
(* of useTyping: isTyping, the time left on the timer of the debounced     *)
(* stop (0: none pending), the callbacks invoked so far and the number of  *)
(* calls made to the hook.                                                 *)
(***************************************************************************)
NoPromise == 0     \* refreshPromise = null

SignedIn(access) ==
    [access |-> access, refreshToken |-> TRUE, isAuthenticated |-> TRUE,
     refreshPromise |-> NoPromise, requests |-> <<>>, calls |-> <<>>,
     sock |-> "idle", wait |-> 0, cycles |-> 0,
     socket |-> 0, current |-> None, emitted |-> <<>>, open |-> None, asked |-> 0,
     typing |-> [isTyping |-> FALSE, timer |-> 0, calls |-> <<>>, ops |-> 0]]

Init ==
    /\ connected = {}
    /\ userId = [s \in Conns |-> None]
    /\ rooms = [s \in Conns |-> {}]
    /\ isOnline = [u \in Users |-> FALSE]
    /\ messages = <<>>
    /\ readReceipts = {}
    /\ userActivity = {}
    /\ refreshTokens = {}
    /\ tasks = <<>>
    /\ log = <<>>
    /\ fails = 0
    /\ now = 0
    /\ held = {}
    /\ joined = {}
    /\ client = SignedIn("fresh")

(***************************************************************************)
(* Handshake: io.use(authenticateSocket), then the connection handler.     *)
(* The token of TokenUser(s) verifies; the user row is found, socket.userId*)
(* is set, the user is marked online and next() admits the socket, which   *)
(* is sent 'connected'.                                                    *)
(***************************************************************************)
authenticateSocket(s) ==
    /\ CanStart
    /\ userId[s] = None
    /\ userId' = [userId EXCEPT ![s] = TokenUser(s)]
    /\ isOnline' = [isOnline EXCEPT ![TokenUser(s)] = TRUE]
    /\ connected' = connected \cup {s}
    /\ tasks' = Append(tasks, [Task("connect", s, None, "done", None) EXCEPT !.res = "ok"])
    /\ log' = Append(log, Event("connected", s, None, {s}, NewTask))
    /\ UNCHANGED <<rooms, messages, readReceipts, userActivity, refreshTokens, fails, now,
                   held, joined, client>>

(***************************************************************************)
(* join_conversation                                                       *)
(***************************************************************************)
join_conversation(s, conversationId) ==
    /\ CanStart
    /\ s \in connected
    /\ tasks' = Append(tasks, Task("join", s, conversationId, "findFirst", None))
    /\ UNCHANGED <<connected, userId, rooms, isOnline, messages, readReceipts, userActivity,
                   refreshTokens, log, fails, now, held, joined, client>>

\* socket.join(conversationId): the room is named by the bare conversation id.
\* A socket that has closed meanwhile is no longer in the namespace and is
\* reached by no emit.
JoinRoomName(conversationId) == ConversationRoom(conversationId)

join_conversation_findFirst(t) ==
    LET s == tasks[t].conn
        cv == tasks[t].conv
        room == JoinRoomName(cv)
    IN
    /\ At(t, "join", "findFirst")
    /\ \/ /\ CanFail
          /\ fails' = fails + 1
          /\ tasks' = Fail(t)
          /\ log' = Append(log, Event("error", s, None, SocketEmit(s), t))
          /\ UNCHANGED <<rooms, joined>>
       \/ /\ ~findConversation(cv, userId[s])
          /\ tasks' = Finish(t, "rejected")
          /\ log' = Append(log, Event("error", s, None, SocketEmit(s), t))
          /\ UNCHANGED <<rooms, fails, joined>>
       \/ /\ findConversation(cv, userId[s])
          /\ rooms' = IF s \in connected
                      THEN [rooms EXCEPT ![s] = @ \cup {room}]
                      ELSE rooms
          /\ tasks' = Finish(t, "ok")
          /\ log' = Append(log, Event("user_joined_conversation", s, room,
                                      SocketTo(s, room), t))
          /\ joined' = joined \cup {<<s, room>>}
          /\ UNCHANGED fails
    /\ UNCHANGED <<connected, userId, isOnline, messages, readReceipts, userActivity,
                   refreshTokens, now, held, client>>

(***************************************************************************)
(* leave_conversation: synchronous, no participant or membership check.    *)
(***************************************************************************)
leave_conversation(s, conversationId) ==
    LET room == ConversationRoom(conversationId) IN
    /\ CanStart
    /\ s \in connected
    /\ rooms' = [rooms EXCEPT ![s] = @ \ {room}]
    /\ tasks' = Append(tasks, [Task("leave", s, conversationId, "done", None)
                                 EXCEPT !.res = "ok"])
    /\ log' = Append(log, Event("user_left_conversation", s, room,
                                SocketTo(s, room), NewTask))
    /\ UNCHANGED <<connected, userId, isOnline, messages, readReceipts, userActivity,
                   refreshTokens, fails, now, held, joined, client>>

(***************************************************************************)
(* send_message                                                            *)
(***************************************************************************)
send_message(s, conversationId, messageData) ==
    /\ CanStart
    /\ s \in connected
    /\ tasks' = Append(tasks, Task("send", s, conversationId, "findFirst", messageData))
    /\ UNCHANGED <<connected, userId, rooms, isOnline, messages, readReceipts, userActivity,
                   refreshTokens, log, fails, now, held, joined, client>>

\* variant: content is demanded of every message kind
ValidateMessageContentRequired(messageData) ==
    IF messageData.content = ""
    THEN "Text messages must have content"
    ELSE IF messageData.messageType # "text" /\ messageData.fileUrl = ""
    THEN "File messages must have a file URL"
    ELSE None

\* The two content checks of the handler, in order; None when both pass.
ValidateMessage(messageData) ==
    IF messageData.messageType = "text" /\ messageData.content = ""
    THEN "Text messages must have content"
    ELSE IF messageData.messageType # "text" /\ messageData.fileUrl = ""
    THEN "File messages must have a file URL"
    ELSE None

\* catch (error) { socket.emit('error', ...) }
SendCatch(t) == <<Event("error", tasks[t].conn, None, SocketEmit(tasks[t].conn), t)>>

send_message_findFirst(t) ==
    LET s == tasks[t].conn
        cv == tasks[t].conv
    IN
    /\ At(t, "send", "findFirst")
    /\ \/ /\ CanFail
          /\ fails' = fails + 1
          /\ tasks' = Fail(t)
          /\ log' = log \o SendCatch(t)
       \/ /\ ~findConversation(cv, userId[s]) \/ ValidateMessage(tasks[t].arg) # None
          /\ tasks' = Finish(t, "rejected")
          /\ log' = Append(log, Event("error", s, None, SocketEmit(s), t))
          /\ UNCHANGED fails
       \/ /\ findConversation(cv, userId[s])
          /\ ValidateMessage(tasks[t].arg) = None
          /\ tasks' = [tasks EXCEPT ![t].pc = "create",
                                    ![t].snap = InRoom(ConversationRoom(cv))]
          /\ UNCHANGED <<log, fails, joined>>
    /\ UNCHANGED <<connected, userId, rooms, isOnline, messages, readReceipts, userActivity,
                   refreshTokens, now, held, joined, client>>

\* prisma.message.create: the row, deliveredAt stamped at creation.
NewMessage(t) ==
    [id |-> t, conversationId |-> tasks[t].conv, senderId |-> userId[tasks[t].conn],
     messageType |-> tasks[t].arg.messageType, content |-> tasks[t].arg.content,
     fileUrl |-> tasks[t].arg.fileUrl, deliveredAt |-> now, isRead |-> FALSE,
     readAt |-> None]

\* variant: the broadcast is emitted when the create is issued, before its
\* outcome is known
send_message_create_broadcastFirst(t) ==
    LET s == tasks[t].conn
        room == ConversationRoom(tasks[t].conv)
        early == <<Event("message_received", s, room, IoTo(room), t)>>
    IN
    /\ At(t, "send", "create")
    /\ \/ /\ CanFail
          /\ fails' = fails + 1
          /\ tasks' = Fail(t)
          /\ log' = log \o early \o SendCatch(t)
          /\ UNCHANGED messages
       \/ /\ messages' = Append(messages, NewMessage(t))
          /\ tasks' = [tasks EXCEPT ![t].pc = "update"]
          /\ log' = log \o early
          /\ UNCHANGED fails
    /\ UNCHANGED <<connected, userId, rooms, isOnline, readReceipts, userActivity,
                   refreshTokens, now, held, joined, client>>

send_message_create(t) ==
    /\ At(t, "send", "create")
    /\ \/ /\ CanFail
          /\ fails' = fails + 1
          /\ tasks' = Fail(t)
          /\ log' = log \o SendCatch(t)
          /\ UNCHANGED messages
       \/ /\ messages' = Append(messages, NewMessage(t))
          /\ tasks' = [tasks EXCEPT ![t].pc = "update"]
          /\ UNCHANGED <<log, fails, joined>>
    /\ UNCHANGED <<connected, userId, rooms, isOnline, readReceipts, userActivity,
                   refreshTokens, now, held, joined, client>>

\* variant: the broadcast goes to a room named `conversation:${conversationId}`
SendEmitsPrefixedRoom(t) ==
    LET s == tasks[t].conn
        room == <<"conversation:", tasks[t].conv>>
    IN <<Event("message_received", s, room, IoTo(room), t),
         Event("message_delivered", s, None, SocketEmit(s), t)>>

\* variant: the acknowledgement is emitted before the broadcast
SendEmitsAckFirst(t) ==
    LET s == tasks[t].conn
        room == ConversationRoom(tasks[t].conv)
    IN <<Event("message_delivered", s, None, SocketEmit(s), t),
         Event("message_received", s, room, IoTo(room), t)>>

\* io.to(conversationId).emit('message_received'), then
\* socket.emit('message_delivered'), with nothing awaited in between.
SendEmits(t) ==
    LET s == tasks[t].conn
        room == ConversationRoom(tasks[t].conv)
    IN <<Event("message_received", s, room, IoTo(room), t),
         Event("message_delivered", s, None, SocketEmit(s), t)>>

\* prisma.conversation.update({lastMessageAt}) returns, then the emits.
send_message_update(t) ==
    /\ At(t, "send", "update")
    /\ \/ /\ CanFail
          /\ fails' = fails + 1
          /\ tasks' = Fail(t)
          /\ log' = log \o SendCatch(t)
       \/ /\ tasks' = Finish(t, "ok")
          /\ log' = log \o SendEmits(t)
          /\ UNCHANGED fails
    /\ UNCHANGED <<connected, userId, rooms, isOnline, messages, readReceipts, userActivity,
                   refreshTokens, now, held, joined, client>>

RECURSIVE SetToSeq(_)
SetToSeq(S) ==
    IF S = {} THEN <<>>
    ELSE LET x == CHOOSE y \in S : TRUE IN <<x>> \o SetToSeq(S \ {x})

(***************************************************************************)
(* mark_read                                                               *)
(***************************************************************************)
mark_read(s, messageId) ==
    /\ CanStart
    /\ s \in connected
    /\ tasks' = Append(tasks, Task("mark_read", s, None, "findFirst", messageId))
    /\ UNCHANGED <<connected, userId, rooms, isOnline, messages, readReceipts,
                   userActivity, refreshTokens, log, fails, now, held, joined, client>>

\* prisma.message.findFirst({where: {id}})
FindMessage(messageId) == {k \in 1..Len(messages) : messages[k].id = messageId}

\* variant: the sender of the message is let through
MayMarkReadAnyParticipant(message, u) == u \in Participants(message.conversationId)

\* isParticipant && message.senderId !== socket.userId
MayMarkRead(message, u) ==
    u \in Participants(message.conversationId) /\ message.senderId # u

\* catch (error) { socket.emit('error', ...) }
ReadCatch(t) ==
    /\ CanFail
    /\ fails' = fails + 1
    /\ tasks' = Fail(t)
    /\ log' = Append(log, Event("error", tasks[t].conn, None, SocketEmit(tasks[t].conn), t))

\* The arguments of the next store call are built when the previous one
\* returns: snap.at is the new Date() the next call carries.
mark_read_findFirst(t) ==
    LET s == tasks[t].conn
        found == FindMessage(tasks[t].arg)
    IN
    /\ At(t, "mark_read", "findFirst")
    /\ \/ ReadCatch(t)
       \/ /\ found = {}
          /\ tasks' = Finish(t, "rejected")
          /\ log' = Append(log, Event("error", s, None, SocketEmit(s), t))
          /\ UNCHANGED fails
       \/ /\ \E k \in found : ~MayMarkRead(messages[k], userId[s])
          /\ tasks' = Finish(t, "ignored")
          /\ UNCHANGED <<log, fails>>
       \/ /\ \E k \in found :
                /\ MayMarkRead(messages[k], userId[s])
                /\ tasks' = [tasks EXCEPT ![t].pc = "update",
                                          ![t].snap = [conv |-> messages[k].conversationId,
                                                       at |-> now]]
          /\ UNCHANGED <<log, fails>>
    /\ UNCHANGED <<connected, userId, rooms, isOnline, messages, readReceipts,
                   userActivity, refreshTokens, now, held, joined, client>>

\* prisma.message.update({where: {id}, data: {isRead: true, readAt}})
MarkMessage(ids, at) ==
    [k \in 1..Len(messages) |->
        IF messages[k].id \in ids
        THEN [messages[k] EXCEPT !.isRead = TRUE, !.readAt = at]
        ELSE messages[k]]

mark_read_update(t) ==
    /\ At(t, "mark_read", "update")
    /\ \/ ReadCatch(t) /\ UNCHANGED messages
       \/ /\ messages' = MarkMessage({tasks[t].arg}, tasks[t].snap.at)
          /\ tasks' = [tasks EXCEPT ![t].pc = "upsert", ![t].snap.at = now]
          /\ UNCHANGED <<log, fails>>
    /\ UNCHANGED <<connected, userId, rooms, isOnline, readReceipts,
                   userActivity, refreshTokens, now, held, joined, client>>

Receipt(messageId, u, at) == [messageId |-> messageId, userId |-> u, readAt |-> at]

\* variant: a row is inserted whether or not the pair already has one
InsertReceipt(messageId, u, at) == readReceipts \cup {Receipt(messageId, u, at)}

\* prisma.messageReadReceipt.upsert on the key (messageId, userId)
UpsertReceipt(messageId, u, at) ==
    {r \in readReceipts : ~(r.messageId = messageId /\ r.userId = u)}
        \cup {Receipt(messageId, u, at)}

\* an event about one message
ReadEvent(ev, s, room, t, messageId) ==
    [ev |-> ev, by |-> s, room |-> room, to |-> IoTo(room), task |-> t,
     messageId |-> messageId]

\* message_read, then read_receipt_updated, to the room of the conversation
ReadEmits(t) ==
    LET s == tasks[t].conn
        room == ConversationRoom(tasks[t].snap.conv)
    IN <<ReadEvent("message_read", s, room, t, tasks[t].arg),
         ReadEvent("read_receipt_updated", s, room, t, tasks[t].arg)>>

mark_read_upsert(t) ==
    /\ At(t, "mark_read", "upsert")
    /\ \/ ReadCatch(t) /\ UNCHANGED readReceipts
       \/ /\ readReceipts' = UpsertReceipt(tasks[t].arg, userId[tasks[t].conn],
                                           tasks[t].snap.at)
          /\ log' = log \o ReadEmits(t)
          /\ tasks' = Finish(t, "ok")
          /\ UNCHANGED fails
    /\ UNCHANGED <<connected, userId, rooms, isOnline, messages,
                   userActivity, refreshTokens, now, held, joined, client>>

(***************************************************************************)
(* mark_conversation_read                                                  *)
(***************************************************************************)
mark_conversation_read(s, conversationId) ==
    /\ CanStart
    /\ s \in connected
    /\ tasks' = Append(tasks, Task("mark_conversation_read", s, conversationId,
                                   "findFirst", None))
    /\ UNCHANGED <<connected, userId, rooms, isOnline, messages, readReceipts,
                   userActivity, refreshTokens, log, fails, now, held, joined, client>>

mark_conversation_read_findFirst(t) ==
    LET s == tasks[t].conn IN
    /\ At(t, "mark_conversation_read", "findFirst")
    /\ \/ ReadCatch(t)
       \/ /\ ~findConversation(tasks[t].conv, userId[s])
          /\ tasks' = Finish(t, "rejected")
          /\ log' = Append(log, Event("error", s, None, SocketEmit(s), t))
          /\ UNCHANGED fails
       \/ /\ findConversation(tasks[t].conv, userId[s])
          /\ tasks' = [tasks EXCEPT ![t].pc = "findMany"]
          /\ UNCHANGED <<log, fails>>
    /\ UNCHANGED <<connected, userId, rooms, isOnline, messages, readReceipts,
                   userActivity, refreshTokens, now, held, joined, client>>

\* where: {conversationId, senderId: {not: userId}, isRead: false}
UnreadMessages(conversationId, u) ==
    {messages[k].id : k \in {j \in 1..Len(messages) :
                                /\ messages[j].conversationId = conversationId
                                /\ messages[j].senderId # u
                                /\ ~messages[j].isRead}}

\* prisma.message.findMany returns unreadMessages
mark_conversation_read_findMany(t) ==
    LET unreadMessages == UnreadMessages(tasks[t].conv, userId[tasks[t].conn]) IN
    /\ At(t, "mark_conversation_read", "findMany")
    /\ \/ ReadCatch(t)
       \/ /\ unreadMessages = {}
          /\ tasks' = Finish(t, "ok")
          /\ UNCHANGED <<log, fails>>
       \/ /\ unreadMessages # {}
          /\ tasks' = [tasks EXCEPT ![t].pc = "updateMany",
                                    ![t].snap = [ids |-> unreadMessages, at |-> now]]
          /\ UNCHANGED <<log, fails>>
    /\ UNCHANGED <<connected, userId, rooms, isOnline, messages, readReceipts,
                   userActivity, refreshTokens, now, held, joined, client>>

\* prisma.message.updateMany: the where clause is evaluated again
mark_conversation_read_updateMany(t) ==
    /\ At(t, "mark_conversation_read", "updateMany")
    /\ \/ ReadCatch(t) /\ UNCHANGED messages
       \/ /\ messages' = MarkMessage(UnreadMessages(tasks[t].conv, userId[tasks[t].conn]),
                                      tasks[t].snap.at)
          /\ tasks' = [tasks EXCEPT ![t].pc = "createMany", ![t].snap.at = now]
          /\ UNCHANGED <<log, fails>>
    /\ UNCHANGED <<connected, userId, rooms, isOnline, readReceipts,
                   userActivity, refreshTokens, now, held, joined, client>>

\* prisma.messageReadReceipt.createMany({skipDuplicates: true})
CreateReceipts(ids, u, at) ==
    readReceipts \cup
        {Receipt(id, u, at) : id \in {i \in ids :
            ~\E r \in readReceipts : r.messageId = i /\ r.userId = u}}

\* unreadMessages.forEach(msg => io.to(conversationId).emit('message_read'))
ConversationReadEmits(t) ==
    LET ids == SetToSeq(tasks[t].snap.ids) IN
    [i \in 1..Len(ids) |->
        ReadEvent("message_read", tasks[t].conn, ConversationRoom(tasks[t].conv), t, ids[i])]

mark_conversation_read_createMany(t) ==
    /\ At(t, "mark_conversation_read", "createMany")
    /\ \/ ReadCatch(t) /\ UNCHANGED readReceipts
       \/ /\ readReceipts' = CreateReceipts(tasks[t].snap.ids, userId[tasks[t].conn],
                                            tasks[t].snap.at)
          /\ log' = log \o ConversationReadEmits(t)
          /\ tasks' = Finish(t, "ok")
          /\ UNCHANGED fails
    /\ UNCHANGED <<connected, userId, rooms, isOnline, messages,
                   userActivity, refreshTokens, now, held, joined, client>>

(***************************************************************************)
(* disconnect, user_offline and handleUserOffline                          *)
(***************************************************************************)
\* history kept with an offline task: the rooms the socket was in, those of
\* them with another subscriber, and the conversations its user was typing in
\* when the task started
OfflineSnap(s) ==
    [hadRooms |-> rooms[s],
     peerRooms |-> {room \in rooms[s] : SocketTo(s, room) # {}},
     typingIn |-> {a.conversationId : a \in {b \in userActivity : b.userId = userId[s]}}]

\* The socket closes: socket.io empties socket.rooms and removes the socket
\* from the namespace before the 'disconnect' listeners run; the listener of
\* setupActivityHandlers calls handleUserOffline.
disconnect(s) ==
    /\ CanStart
    /\ s \in connected
    /\ connected' = connected \ {s}
    /\ rooms' = [rooms EXCEPT ![s] = {}]
    /\ tasks' = Append(tasks, [Task("disconnect", s, None, "update", None)
                                 EXCEPT !.snap = OfflineSnap(s)])
    /\ UNCHANGED <<userId, isOnline, messages, readReceipts, userActivity, refreshTokens,
                   log, fails, now, held, joined, client>>

user_offline(s) ==
    /\ CanStart
    /\ s \in connected
    /\ tasks' = Append(tasks, [Task("user_offline", s, None, "update", None)
                                 EXCEPT !.snap = OfflineSnap(s)])
    /\ UNCHANGED <<connected, userId, rooms, isOnline, messages, readReceipts, userActivity,
                   refreshTokens, log, fails, now, held, joined, client>>

IsOffline(t) == tasks[t].kind \in {"disconnect", "user_offline"}

\* catch (error) { logger.error(...) }: nothing is emitted
CatchAndLog(t) ==
    /\ CanFail
    /\ fails' = fails + 1
    /\ tasks' = Fail(t)

\* prisma.user.update({isOnline: false, lastSeen})
handleUserOffline_update(t) ==
    /\ IsOffline(t) /\ tasks[t].pc = "update" /\ ~Done(t)
    /\ \/ CatchAndLog(t) /\ UNCHANGED isOnline
       \/ /\ isOnline' = [isOnline EXCEPT ![userId[tasks[t].conn]] = FALSE]
          /\ tasks' = [tasks EXCEPT ![t].pc = "deleteMany"]
          /\ UNCHANGED fails
    /\ UNCHANGED <<connected, userId, rooms, messages, readReceipts, userActivity,
                   refreshTokens, log, now, held, joined, client>>

\* prisma.userActivity.deleteMany({userId, activityType: 'TYPING'})
handleUserOffline_deleteMany(t) ==
    /\ IsOffline(t) /\ tasks[t].pc = "deleteMany" /\ ~Done(t)
    /\ \/ CatchAndLog(t) /\ UNCHANGED userActivity
       \/ /\ userActivity' = {a \in userActivity : a.userId # userId[tasks[t].conn]}
          /\ tasks' = [tasks EXCEPT ![t].pc = "findMany"]
          /\ UNCHANGED fails
    /\ UNCHANGED <<connected, userId, rooms, isOnline, messages, readReceipts,
                   refreshTokens, log, now, held, joined, client>>

\* conversationRooms: the rooms of socket.rooms that start with 'conversation:'
ConversationRooms(s) == {room \in rooms[s] : StartsWithConversationPrefix(room)}

\* friend_offline to each friend's personal room, then user_stopped_typing to
\* each of conversationRooms
OfflineEmits(t) ==
    LET s == tasks[t].conn
        friendIds == SetToSeq(Friends(userId[s]))
        crooms == SetToSeq(ConversationRooms(s))
    IN [i \in 1..Len(friendIds) |->
           Event("friend_offline", s, UserRoom(friendIds[i]),
                 SocketTo(s, UserRoom(friendIds[i])), t)]
       \o
       [i \in 1..Len(crooms) |->
           Event("user_stopped_typing", s, crooms[i], SocketTo(s, crooms[i]), t)]

\* prisma.friendship.findMany returns, then the emits
handleUserOffline_findMany(t) ==
    /\ IsOffline(t) /\ tasks[t].pc = "findMany" /\ ~Done(t)
    /\ \/ CatchAndLog(t) /\ UNCHANGED log
       \/ /\ log' = log \o OfflineEmits(t)
          /\ tasks' = Finish(t, "ok")
          /\ UNCHANGED fails
    /\ UNCHANGED <<connected, userId, rooms, isOnline, messages, readReceipts, userActivity,
                   refreshTokens, now, held, joined, client>>

(***************************************************************************)
(* user_online                                                             *)
(***************************************************************************)
user_online(s) ==
    /\ CanStart
    /\ s \in connected
    /\ tasks' = Append(tasks, Task("user_online", s, None, "update", None))
    /\ UNCHANGED <<connected, userId, rooms, isOnline, messages, readReceipts, userActivity,
                   refreshTokens, log, fails, now, held, joined, client>>

user_online_update(t) ==
    /\ At(t, "user_online", "update")
    /\ \/ CatchAndLog(t) /\ UNCHANGED isOnline
       \/ /\ isOnline' = [isOnline EXCEPT ![userId[tasks[t].conn]] = TRUE]
          /\ tasks' = [tasks EXCEPT ![t].pc = "findMany"]
          /\ UNCHANGED fails
    /\ UNCHANGED <<connected, userId, rooms, messages, readReceipts, userActivity,
                   refreshTokens, log, now, held, joined, client>>

OnlineEmits(t) ==
    LET s == tasks[t].conn
        friendIds == SetToSeq(Friends(userId[s]))
    IN [i \in 1..Len(friendIds) |->
           Event("friend_online", s, UserRoom(friendIds[i]),
                 SocketTo(s, UserRoom(friendIds[i])), t)]

\* the emits, then socket.join(`user:${socket.userId}`)
user_online_findMany(t) ==
    LET s == tasks[t].conn IN
    /\ At(t, "user_online", "findMany")
    /\ \/ CatchAndLog(t) /\ UNCHANGED <<log, rooms, joined>>
       \/ /\ log' = log \o OnlineEmits(t)
          /\ rooms' = IF s \in connected
                      THEN [rooms EXCEPT ![s] = @ \cup {UserRoom(userId[s])}]
                      ELSE rooms
          /\ tasks' = Finish(t, "ok")
          /\ UNCHANGED fails
    /\ UNCHANGED <<connected, userId, isOnline, messages, readReceipts, userActivity,
                   refreshTokens, now, held, joined, client>>

(***************************************************************************)
(* typing_start, typing_stop, cleanupTypingActivities                      *)
(***************************************************************************)
typing_start(s, conversationId) ==
    /\ CanStart
    /\ s \in connected
    /\ tasks' = Append(tasks, Task("typing_start", s, conversationId, "findFirst", None))
    /\ UNCHANGED <<connected, userId, rooms, isOnline, messages, readReceipts, userActivity,
                   refreshTokens, log, fails, now, held, joined, client>>

typing_start_findFirst(t) ==
    /\ At(t, "typing_start", "findFirst")
    /\ \/ CatchAndLog(t)
       \/ /\ ~findConversation(tasks[t].conv, userId[tasks[t].conn])
          /\ tasks' = Finish(t, "ignored")
          /\ UNCHANGED fails
       \/ /\ findConversation(tasks[t].conv, userId[tasks[t].conn])
          /\ tasks' = [tasks EXCEPT ![t].pc = "upsert", ![t].snap = [at |-> now]]
          /\ UNCHANGED fails
    /\ UNCHANGED <<connected, userId, rooms, isOnline, messages, readReceipts, userActivity,
                   refreshTokens, log, now, held, joined, client>>

Activity(u, cv, at) == [userId |-> u, conversationId |-> cv, lastActivity |-> at]

\* prisma.userActivity.upsert on (userId, conversationId, TYPING); lastActivity
\* is the new Date() of the call's arguments, built when the lookup returned
UpsertActivity(u, cv, at) ==
    {a \in userActivity : ~(a.userId = u /\ a.conversationId = cv)}
        \cup {Activity(u, cv, at)}

typing_start_upsert(t) ==
    LET s == tasks[t].conn
        room == ConversationRoom(tasks[t].conv)
    IN
    /\ At(t, "typing_start", "upsert")
    /\ \/ CatchAndLog(t) /\ UNCHANGED <<userActivity, log, joined>>
       \/ /\ userActivity' = UpsertActivity(userId[s], tasks[t].conv, tasks[t].snap.at)
          /\ log' = Append(log, Event("user_typing", s, room, SocketTo(s, room), t))
          /\ tasks' = Finish(t, "ok")
          /\ UNCHANGED fails
    /\ UNCHANGED <<connected, userId, rooms, isOnline, messages, readReceipts,
                   refreshTokens, now, held, joined, client>>

typing_stop(s, conversationId) ==
    /\ CanStart
    /\ s \in connected
    /\ tasks' = Append(tasks, Task("typing_stop", s, conversationId, "deleteMany", None))
    /\ UNCHANGED <<connected, userId, rooms, isOnline, messages, readReceipts, userActivity,
                   refreshTokens, log, fails, now, held, joined, client>>

\* prisma.userActivity.deleteMany({userId, conversationId, TYPING})
DeleteActivity(u, cv) ==
    {a \in userActivity : ~(a.userId = u /\ a.conversationId = cv)}

typing_stop_deleteMany(t) ==
    LET s == tasks[t].conn
        room == ConversationRoom(tasks[t].conv)
    IN
    /\ At(t, "typing_stop", "deleteMany")
    /\ \/ CatchAndLog(t) /\ UNCHANGED <<userActivity, log, joined>>
       \/ /\ userActivity' = DeleteActivity(userId[s], tasks[t].conv)
          /\ log' = Append(log, Event("user_stopped_typing", s, room,
                                      SocketTo(s, room), t))
          /\ tasks' = Finish(t, "ok")
          /\ UNCHANGED fails
    /\ UNCHANGED <<connected, userId, rooms, isOnline, messages, readReceipts,
                   refreshTokens, now, held, joined, client>>

(***************************************************************************)
(* cleanupTypingActivities, started by setInterval.                        *)
(***************************************************************************)
SweepAge == 5       \* 5 * 60 * 1000 ms, in minutes

\* fiveMinutesAgo = new Date(Date.now() - 5 * 60 * 1000), computed when the
\* sweep starts; snap.at is that Date.now()
cleanupTypingActivities ==
    /\ Len(tasks) < MaxSweepOps
    /\ tasks' = Append(tasks, [Task("sweep", None, None, "deleteMany", None)
                                 EXCEPT !.snap = [at |-> now]])
    /\ UNCHANGED <<connected, userId, rooms, isOnline, messages, readReceipts, userActivity,
                   refreshTokens, log, fails, now, held, joined, client>>

\* variant: rows exactly five minutes old are stale too
StaleActivitiesInclusive(fiveMinutesAgo) ==
    {a \in userActivity : a.lastActivity <= fiveMinutesAgo}

\* where: {activityType: 'TYPING', lastActivity: {lt: fiveMinutesAgo}}
StaleActivities(fiveMinutesAgo) ==
    {a \in userActivity : a.lastActivity < fiveMinutesAgo}

\* prisma.userActivity.deleteMany returns; a failure is logged
cleanupTypingActivities_deleteMany(t) ==
    /\ At(t, "sweep", "deleteMany")
    /\ \/ CatchAndLog(t) /\ UNCHANGED userActivity
       \/ /\ userActivity' = userActivity \ StaleActivities(tasks[t].snap.at - SweepAge)
          /\ tasks' = Finish(t, "ok")
          /\ UNCHANGED fails
    /\ UNCHANGED <<connected, userId, rooms, isOnline, messages, readReceipts,
                   refreshTokens, log, now, held, joined, client>>

(***************************************************************************)
(* Auth routes: POST /login, /refresh, /logout.  Time passes by Advance.   *)
(***************************************************************************)
RefreshTTL == 10080     \* 7 days, in minutes

\* generateTokens: the refresh JWT carries the user and its expiry; jti stands
\* for what makes two JWTs of one user differ (iat)
RefreshJwt(u, t) == [userId |-> u, jti |-> t, exp |-> now + RefreshTTL, sig |-> "ok"]
Forged == [userId |-> "u1", jti |-> 0, exp |-> RefreshTTL, sig |-> "bad"]

\* jwt.verify(token, JWT_REFRESH_SECRET): signature and expiry
verifyRefreshToken(token) == token.sig = "ok" /\ token.exp > now

\* prisma.refreshToken.create({token: generateSecureToken(), userId, expiresAt})
RefreshRow(u, t) == [id |-> t, userId |-> u, expiresAt |-> now + RefreshTTL]

HttpTask(kind, pc, arg) == Task(kind, None, None, pc, arg)

\* The credentials are right: user found, password matches, tokens generated.
login(u) ==
    /\ CanStart
    /\ tasks' = Append(tasks, HttpTask("login", "create", u))
    /\ UNCHANGED <<connected, userId, rooms, isOnline, messages, readReceipts, userActivity,
                   refreshTokens, log, fails, now, held, joined, client>>

\* a store operation of an asyncHandler route throws: no success response
RouteCatch(t) ==
    /\ CanFail
    /\ fails' = fails + 1
    /\ tasks' = Fail(t)

login_create(t) ==
    /\ At(t, "login", "create")
    /\ \/ RouteCatch(t) /\ UNCHANGED refreshTokens
       \/ /\ refreshTokens' = refreshTokens \cup {RefreshRow(tasks[t].arg, t)}
          /\ tasks' = [tasks EXCEPT ![t].pc = "update"]
          /\ UNCHANGED fails
    /\ UNCHANGED <<connected, userId, rooms, isOnline, messages, readReceipts, userActivity,
                   log, now, held, joined, client>>

login_update(t) ==
    /\ At(t, "login", "update")
    /\ \/ RouteCatch(t) /\ UNCHANGED <<isOnline, held, joined>>
       \/ /\ isOnline' = [isOnline EXCEPT ![tasks[t].arg] = TRUE]
          /\ held' = held \cup {RefreshJwt(tasks[t].arg, t)}
          /\ tasks' = Finish(t, "200")
          /\ UNCHANGED fails
    /\ UNCHANGED <<connected, userId, rooms, messages, readReceipts, userActivity,
                   refreshTokens, log, now, joined, client>>

\* POST /refresh: verifyRefreshToken is synchronous; a token that does not
\* verify is answered 401 at once.
refresh(token) ==
    /\ CanStart
    /\ tasks' = Append(tasks,
                       IF verifyRefreshToken(token)
                       THEN HttpTask("refresh", "findFirst", token)
                       ELSE [HttpTask("refresh", "done", token) EXCEPT !.res = "401"])
    /\ UNCHANGED <<connected, userId, rooms, isOnline, messages, readReceipts, userActivity,
                   refreshTokens, log, fails, now, held, joined, client>>

\* prisma.refreshToken.findFirst({where: {userId: decoded.userId,
\* expiresAt: {gt: now}}}): the rows it may return
StoredTokens(token) ==
    {r \in refreshTokens : r.userId = token.userId /\ r.expiresAt > now}

refresh_findFirst(t) ==
    /\ At(t, "refresh", "findFirst")
    /\ \/ /\ CanFail
          /\ fails' = fails + 1
          /\ tasks' = Finish(t, "401")
       \/ /\ StoredTokens(tasks[t].arg) = {}
          /\ tasks' = Finish(t, "401")
          /\ UNCHANGED fails
       \/ /\ \E storedToken \in StoredTokens(tasks[t].arg) :
                tasks' = [tasks EXCEPT ![t].pc = "delete", ![t].snap = {storedToken}]
          /\ UNCHANGED fails
    /\ UNCHANGED <<connected, userId, rooms, isOnline, messages, readReceipts, userActivity,
                   refreshTokens, log, now, held, joined, client>>

\* prisma.refreshToken.delete({where: {id: storedToken.id}}) throws when the
\* row is gone
refresh_delete(t) ==
    /\ At(t, "refresh", "delete")
    /\ \/ /\ CanFail
          /\ fails' = fails + 1
          /\ tasks' = Finish(t, "401")
          /\ UNCHANGED refreshTokens
       \/ /\ tasks[t].snap \cap refreshTokens = {}
          /\ tasks' = Finish(t, "401")
          /\ UNCHANGED <<refreshTokens, fails, joined>>
       \/ /\ tasks[t].snap \cap refreshTokens # {}
          /\ refreshTokens' = refreshTokens \ tasks[t].snap
          /\ tasks' = [tasks EXCEPT ![t].pc = "create"]
          /\ UNCHANGED fails
    /\ UNCHANGED <<connected, userId, rooms, isOnline, messages, readReceipts, userActivity,
                   log, now, held, joined, client>>

refresh_create(t) ==
    /\ At(t, "refresh", "create")
    /\ \/ /\ CanFail
          /\ fails' = fails + 1
          /\ tasks' = Finish(t, "401")
          /\ UNCHANGED <<refreshTokens, held, joined>>
       \/ /\ refreshTokens' = refreshTokens \cup {RefreshRow(tasks[t].arg.userId, t)}
          /\ held' = held \cup {RefreshJwt(tasks[t].arg.userId, t)}
          /\ tasks' = Finish(t, "200")
          /\ UNCHANGED fails
    /\ UNCHANGED <<connected, userId, rooms, isOnline, messages, readReceipts, userActivity,
                   log, now, joined, client>>

\* POST /logout, authenticateToken passed with an access token of u
logout(u) ==
    /\ CanStart
    /\ \E j \in held : j.userId = u
    /\ tasks' = Append(tasks, HttpTask("logout", "deleteMany", u))
    /\ UNCHANGED <<connected, userId, rooms, isOnline, messages, readReceipts, userActivity,
                   refreshTokens, log, fails, now, held, joined, client>>

logout_deleteMany(t) ==
    /\ At(t, "logout", "deleteMany")
    /\ \/ RouteCatch(t) /\ UNCHANGED refreshTokens
       \/ /\ refreshTokens' = {r \in refreshTokens : r.userId # tasks[t].arg}
          /\ tasks' = [tasks EXCEPT ![t].pc = "update"]
          /\ UNCHANGED fails
    /\ UNCHANGED <<connected, userId, rooms, isOnline, messages, readReceipts, userActivity,
                   log, now, held, joined, client>>

logout_update(t) ==
    /\ At(t, "logout", "update")
    /\ \/ RouteCatch(t) /\ UNCHANGED isOnline
       \/ /\ isOnline' = [isOnline EXCEPT ![tasks[t].arg] = FALSE]
          /\ tasks' = Finish(t, "200")
          /\ UNCHANGED fails
    /\ UNCHANGED <<connected, userId, rooms, messages, readReceipts, userActivity,
                   refreshTokens, log, now, held, joined, client>>

\* d minutes pass
Advance(d) ==
    /\ CanStart
    /\ now' = now + d
    /\ tasks' = Append(tasks, [HttpTask("advance", "done", d) EXCEPT !.res = "ok"])
    /\ UNCHANGED <<connected, userId, rooms, isOnline, messages, readReceipts, userActivity,
                   refreshTokens, log, fails, held, joined, client>>

(***************************************************************************)
(* The client: ApiClient.refreshAccessToken, the response interceptor,     *)
(* TokenManager.ensureValidToken and connectSocket of the socket provider. *)
(***************************************************************************)
ServerUnchanged ==
    UNCHANGED <<connected, userId, rooms, isOnline, messages, readReceipts,
                userActivity, refreshTokens, tasks, log, fails, now, held, joined>>

Call(by, promise, res) == [by |-> by, promise |-> promise, res |-> res]

\* variant: a request is sent whether or not one is in flight
refreshAccessTokenUncoalesced(c, by) ==
    IF ~c.refreshToken
    THEN [c EXCEPT !.calls = Append(@, Call(by, NoPromise, "threw"))]
    ELSE [c EXCEPT !.requests = Append(@, [state |-> "pending"]),
                   !.refreshPromise = Len(c.requests) + 1,
                   !.calls = Append(@, Call(by, Len(c.requests) + 1, None))]

\* refreshAccessToken: the promise in flight if there is one; a rejection if
\* no refresh token is stored; otherwise the request is sent and its promise
\* kept in refreshPromise.  Nothing is awaited on the way.
refreshAccessToken(c, by) ==
    IF c.refreshPromise # NoPromise
    THEN [c EXCEPT !.calls = Append(@, Call(by, c.refreshPromise, None))]
    ELSE IF ~c.refreshToken
    THEN [c EXCEPT !.calls = Append(@, Call(by, NoPromise, "threw"))]
    ELSE [c EXCEPT !.requests = Append(@, [state |-> "pending"]),
                   !.refreshPromise = Len(c.requests) + 1,
                   !.calls = Append(@, Call(by, Len(c.requests) + 1, None))]

CanCall == Len(client.calls) < MaxCalls

\* ApiClient.clearTokens
clearTokens(c) == [c EXCEPT !.access = "none", !.refreshToken = FALSE]

\* logout of the auth store: apiClient.logout(), then isAuthenticated: false
\* (the provider's effect then disconnects the socket and sets it to null)
StoreLogout(c) ==
    [clearTokens(c) EXCEPT !.isAuthenticated = FALSE, !.sock = "loggedOut", !.socket = 0]

\* io(url, {auth: {token}, forceNew: true}) and setSocket(socketInstance):
\* a new socket, whose handshake starts
NewSocket(c) == [c EXCEPT !.sock = "handshake", !.socket = @ + 1]

\* connectSocket up to its first suspension: ensureValidToken throws without
\* an access token, refreshes an expired one, and otherwise io() is called.
connectSocket(c) ==
    IF c.access = "none" THEN StoreLogout(c)
    ELSE IF c.access = "expired"
    THEN LET d == refreshAccessToken(c, "ensureValidToken")
         IN [d EXCEPT !.sock = "ensure", !.wait = Len(d.calls)]
    ELSE NewSocket(c)

\* useEffect: isAuthenticated && user
ClientConnect ==
    /\ client.sock = "idle" /\ client.isAuthenticated
    /\ client.access = "expired" => CanCall
    /\ client' = connectSocket(client)
    /\ ServerUnchanged

\* the refresh awaited by ensureValidToken has settled
ClientEnsureDone ==
    /\ client.sock = "ensure" /\ client.calls[client.wait].res # None
    /\ client' = IF client.calls[client.wait].res = "ok"
                  THEN NewSocket(client)
                  ELSE StoreLogout(client)
    /\ ServerUnchanged

\* what the handshake ends in: 'connect', or connect_error with the message
\* of the Error authenticateSocket passed to next()
AuthenticationClass ==
    {"Authentication token required", "Invalid access token", "Authentication failed"}
HandshakeOutcomes == {"connect", "User not found"} \cup AuthenticationClass

\* error.message?.includes('Authentication') ||
\* error.message?.includes('Invalid access token')
ClientHandshake(outcome) ==
    /\ client.sock = "handshake"
    /\ \/ /\ outcome = "connect"
          /\ client' = [client EXCEPT !.sock = "connected", !.cycles = 0]
       \/ /\ outcome \in AuthenticationClass
          /\ CanCall
          /\ LET d == refreshAccessToken(client, "connect_error")
             IN client' = [d EXCEPT !.sock = "refresh", !.wait = Len(d.calls)]
       \/ /\ outcome \notin AuthenticationClass \cup {"connect"}
          /\ client' = [client EXCEPT !.sock = "rejected"]
    /\ ServerUnchanged

\* the refresh awaited by the connect_error listener has settled:
\* socketInstance.disconnect() and setTimeout(connectSocket, 1000), or logout
ClientRefreshDone ==
    /\ client.sock = "refresh" /\ client.calls[client.wait].res # None
    /\ client' = IF client.calls[client.wait].res = "ok"
                  THEN [client EXCEPT !.sock = "timer", !.cycles = @ + 1]
                  ELSE StoreLogout(client)
    /\ ServerUnchanged

\* the timer fires
ClientTimer ==
    /\ client.sock = "timer"
    /\ client.access = "expired" => CanCall
    /\ client' = connectSocket(client)
    /\ ServerUnchanged

\* a request other than the refresh is answered 401: the response interceptor
\* calls refreshAccessToken
ClientApi401 ==
    /\ CanCall
    /\ client.access # "none"
    /\ client' = refreshAccessToken(client, "interceptor")
    /\ ServerUnchanged

\* the access token stored in the browser expires
ClientExpire ==
    /\ client.access = "fresh"
    /\ client' = [client EXCEPT !.access = "expired"]
    /\ ServerUnchanged

\* the promise p settles with res: every call that was handed it gets res,
\* and finally() clears refreshPromise
Settle(c, p, res) ==
    [c EXCEPT !.requests[p].state = res,
              !.refreshPromise = NoPromise,
              !.calls = [k \in 1..Len(c.calls) |->
                           IF c.calls[k].promise = p /\ c.calls[k].res = None
                           THEN [c.calls[k] EXCEPT !.res = res]
                           ELSE c.calls[k]]]

\* The response to POST /api/auth/refresh arrives.  200: setTokens.  No
\* response or a status other than 401: the interceptor rejects.  401: the
\* interceptor marks the request _retry and awaits refreshAccessToken(),
\* which hands it the promise of this very request.
RefreshResponse(p, outcome) ==
    /\ p \in 1..Len(client.requests)
    /\ client.requests[p].state = "pending"
    /\ \/ /\ outcome = "200"
          /\ client' = [Settle(client, p, "ok") EXCEPT !.access = "fresh",
                                                       !.refreshToken = TRUE]
       \/ /\ outcome = "error"
          /\ client' = Settle(client, p, "failed")
       \/ /\ outcome = "401"
          /\ CanCall
          /\ LET d == refreshAccessToken(client, "interceptor")
             IN client' = [d EXCEPT !.requests[p].state = "answered401"]
    /\ ServerUnchanged

(***************************************************************************)
(* useSocketEvents: joinConversation and leaveConversation, and the chat   *)
(* view that calls them.                                                   *)
(***************************************************************************)
Emit(g, ev, cv) == [sock |-> g, ev |-> ev, conv |-> cv]

\* joinConversation(conversationId): nothing without a socket or when the
\* ref already names the conversation; otherwise the previous conversation
\* is left, the new one joined and the ref set.  socket.emit on a socket that
\* is not connected yet buffers the event on that socket.
joinConversation(c, conversationId) ==
    IF c.socket # 0 /\ c.current # conversationId
    THEN [c EXCEPT !.emitted =
                       @ \o (IF c.current # None
                             THEN <<Emit(c.socket, "leave_conversation", c.current)>>
                             ELSE <<>>)
                         \o <<Emit(c.socket, "join_conversation", conversationId)>>,
                   !.current = conversationId]
    ELSE c

leaveConversation(c) ==
    IF c.socket # 0 /\ c.current # None
    THEN [c EXCEPT !.emitted = Append(@, Emit(c.socket, "leave_conversation", c.current)),
                   !.current = None]
    ELSE c

CanView == Len(client.emitted) < MaxViewCalls /\ client.isAuthenticated

\* the user opens a conversation: the view requests its room
ViewOpen(cv) ==
    /\ CanView
    /\ client.open # cv
    /\ client' = [joinConversation(client, cv) EXCEPT
                      !.open = cv,
                      !.asked = IF client.sock = "connected" THEN client.socket ELSE @]
    /\ ServerUnchanged

\* the user closes the conversation
ViewClose ==
    /\ CanView
    /\ client.open # None
    /\ client' = [leaveConversation(client) EXCEPT !.open = None]
    /\ ServerUnchanged

\* the channel has opened: the view requests room membership for the
\* conversation it shows
ViewResubscribe ==
    /\ client.sock = "connected" /\ client.isAuthenticated
    /\ client.open # None
    /\ client.asked # client.socket
    /\ client' = [joinConversation(client, client.open) EXCEPT !.asked = client.socket]
    /\ ServerUnchanged

\* the transport of the connected socket closes: socket.io-client reconnects
\* the same socket with the auth it was created with
ClientDrop ==
    /\ client.sock = "connected"
    /\ client' = [client EXCEPT !.sock = "handshake"]
    /\ ServerUnchanged

(***************************************************************************)
(* useTyping.  Time is counted in steps of TickMs.                         *)
(***************************************************************************)
TypingDelay == 1000     \* delay = 1000
TickMs == 500

\* debounce(func, delay)(): clearTimeout(timeoutId), then setTimeout(func, delay)
debouncedStopTyping(h) == [h EXCEPT !.timer = TypingDelay]

\* the debounced func: setIsTyping(false); onStopTyping()
StopTypingTimeout(h) ==
    [h EXCEPT !.timer = 0, !.isTyping = FALSE, !.calls = Append(@, "onStopTyping")]

startTyping(h) ==
    debouncedStopTyping(IF ~h.isTyping
                        THEN [h EXCEPT !.isTyping = TRUE,
                                       !.calls = Append(@, "onStartTyping")]
                        ELSE h)

\* timeoutRef.current is assigned nowhere: it is null and nothing is cleared
stopTyping(h) ==
    IF h.isTyping
    THEN [h EXCEPT !.isTyping = FALSE, !.calls = Append(@, "onStopTyping")]
    ELSE h

\* debouncedStopTyping.cancel?.(): the function debounce returns has no
\* cancel, so the call is skipped
forceStopTyping(h) == stopTyping(h)

CanType == client.typing.ops < MaxTypingOps

Called(h) == [h EXCEPT !.ops = @ + 1]

Keystroke ==
    /\ CanType
    /\ client' = [client EXCEPT !.typing = Called(startTyping(@))]
    /\ ServerUnchanged

StopTyping ==
    /\ CanType
    /\ client' = [client EXCEPT !.typing = Called(stopTyping(@))]
    /\ ServerUnchanged

ForceStopTyping ==
    /\ CanType
    /\ client' = [client EXCEPT !.typing = Called(forceStopTyping(@))]
    /\ ServerUnchanged

\* TickMs pass with no call of the hook; a timer that has run out fires
TypingTime ==
    /\ client.typing.timer > 0
    /\ client' = [client EXCEPT !.typing =
                      IF @.timer <= TickMs
                      THEN StopTypingTimeout(@)
                      ELSE [@ EXCEPT !.timer = @ - TickMs]]
    /\ ServerUnchanged

(***************************************************************************)
(* Specifications                                                          *)
(***************************************************************************)
Connect == \E s \in Conns : authenticateSocket(s)
Disconnect == \E s \in Conns : disconnect(s)
Join == \E s \in Conns, cv \in Convs : join_conversation(s, cv)
JoinStep == \E t \in TaskIds : join_conversation_findFirst(t)
Leave == \E s \in Conns, cv \in Convs : leave_conversation(s, cv)
SendOf(P) == \E s \in Conns, cv \in Convs, p \in P : send_message(s, cv, p)
Send == SendOf({TextMsg, EmptyText})
SendFind == \E t \in TaskIds : send_message_findFirst(t)
SendCreate == \E t \in TaskIds : send_message_create(t)
SendUpdate == \E t \in TaskIds : send_message_update(t)
OfflineUpdate == \E t \in TaskIds : handleUserOffline_update(t)
OfflineDelete == \E t \in TaskIds : handleUserOffline_deleteMany(t)
OfflineFind == \E t \in TaskIds : handleUserOffline_findMany(t)
UserOffline == \E s \in Conns : user_offline(s)
UserOnline == \E s \in Conns : user_online(s)
OnlineUpdate == \E t \in TaskIds : user_online_update(t)
OnlineFind == \E t \in TaskIds : user_online_findMany(t)
TypingStart == \E s \in Conns, cv \in Convs : typing_start(s, cv)
TypingStartFind == \E t \in TaskIds : typing_start_findFirst(t)
TypingStartUpsert == \E t \in TaskIds : typing_start_upsert(t)
TypingStop == \E s \in Conns, cv \in Convs : typing_stop(s, cv)
TypingStopDelete == \E t \in TaskIds : typing_stop_deleteMany(t)

Next ==
    \/ Connect \/ Disconnect \/ UserOffline
    \/ OfflineUpdate \/ OfflineDelete \/ OfflineFind
    \/ UserOnline \/ OnlineUpdate \/ OnlineFind
    \/ Join \/ JoinStep \/ Leave
    \/ Send \/ SendFind \/ SendCreate \/ SendUpdate
    \/ TypingStart \/ TypingStartFind \/ TypingStartUpsert
    \/ TypingStop \/ TypingStopDelete

Spec == Init /\ [][Next]_vars

(***************************************************************************)
(* A server in use: the three sockets have connected and each has joined   *)
(* the rooms of the conversations of its user (authenticateSocket and      *)
(* join_conversation have run to completion for each); the history starts  *)
(* here.                                                                   *)
(***************************************************************************)
InitEstablished ==
    /\ connected = Conns
    /\ userId = [s \in Conns |-> TokenUser(s)]
    /\ rooms = [s \in Conns |->
                  {JoinRoomName(cv) : cv \in {c \in Convs : findConversation(c, TokenUser(s))}}]
    /\ isOnline = [u \in Users |-> \E s \in Conns : TokenUser(s) = u]
    /\ messages = <<>>
    /\ readReceipts = {}
    /\ userActivity = {}
    /\ refreshTokens = {}
    /\ tasks = <<>>
    /\ log = <<>>
    /\ fails = 0
    /\ now = 0
    /\ held = {}
    /\ joined = {<<s, room>> \in Conns \X {JoinRoomName(cv) : cv \in Convs} :
                   findConversation(room[1], TokenUser(s))}
    /\ client = SignedIn("fresh")

EstablishedCanStart == Len(tasks) < MaxEstablishedOps

RoomDisconnect == EstablishedCanStart /\ Disconnect
RoomJoin == EstablishedCanStart /\ Join
RoomLeave == EstablishedCanStart /\ Leave
RoomSend == EstablishedCanStart /\ SendOf({TextMsg})

NextRoom ==
    \/ RoomDisconnect
    \/ OfflineUpdate \/ OfflineDelete \/ OfflineFind
    \/ RoomJoin \/ JoinStep \/ RoomLeave
    \/ RoomSend \/ SendFind \/ SendCreate \/ SendUpdate

SpecRoom == InitEstablished /\ [][NextRoom]_vars

TypingDisconnect == EstablishedCanStart /\ Disconnect
TypingTypingStart == EstablishedCanStart /\ TypingStart
TypingTypingStop == EstablishedCanStart /\ TypingStop

NextTyping ==
    \/ TypingDisconnect
    \/ OfflineUpdate \/ OfflineDelete \/ OfflineFind
    \/ TypingTypingStart \/ TypingStartFind \/ TypingStartUpsert
    \/ TypingTypingStop \/ TypingStopDelete

SpecTyping == InitEstablished /\ [][NextTyping]_vars

\* The sweep on a server in use on which u1 and u2 are typing in cv1
\* (typing_start has run to completion for each); minutes pass, the sweep
\* runs and typing_start events keep arriving.
InitSweep ==
    /\ connected = Conns
    /\ userId = [s \in Conns |-> TokenUser(s)]
    /\ rooms = [s \in Conns |->
                  {JoinRoomName(cv) : cv \in {c \in Convs : findConversation(c, TokenUser(s))}}]
    /\ isOnline = [u \in Users |-> \E s \in Conns : TokenUser(s) = u]
    /\ messages = <<>>
    /\ readReceipts = {}
    /\ userActivity = {Activity(u, "cv1", 0) : u \in Participants("cv1")}
    /\ refreshTokens = {}
    /\ tasks = <<>>
    /\ log = <<>>
    /\ fails = 0
    /\ now = 0
    /\ held = {}
    /\ joined = {<<s, room>> \in Conns \X {JoinRoomName(cv) : cv \in Convs} :
                   findConversation(room[1], TokenUser(s))}
    /\ client = SignedIn("fresh")

SweepTypingStart ==
    /\ Len(tasks) < MaxSweepOps
    /\ \E s \in {"s1", "s2"} : typing_start(s, "cv1")

Sweep == cleanupTypingActivities
SweepDelete == \E t \in TaskIds : cleanupTypingActivities_deleteMany(t)

\* a minute passes
SweepTick ==
    /\ now < MaxSweepClock
    /\ now' = now + 1
    /\ UNCHANGED <<connected, userId, rooms, isOnline, messages, readReceipts,
                   userActivity, refreshTokens, tasks, log, fails, held, joined, client>>

NextSweep ==
    \/ SweepTypingStart \/ TypingStartFind \/ TypingStartUpsert
    \/ Sweep \/ SweepDelete \/ SweepTick

SpecSweep == InitSweep /\ [][NextSweep]_vars

\* send_message with every kind of payload, on a server in use
PayloadSend == EstablishedCanStart /\ SendOf(Payloads)

NextPayload == PayloadSend \/ SendFind \/ SendCreate \/ SendUpdate

SpecPayload == InitEstablished /\ [][NextPayload]_vars

(***************************************************************************)
(* The read handlers on a server in use whose store holds two messages of  *)
(* u1, one in each conversation (send_message has run to completion for    *)
(* each).  The clock advances on its own.                                  *)
(***************************************************************************)
StoredMessage(id, cv, u) ==
    [id |-> id, conversationId |-> cv, senderId |-> u, messageType |-> "text",
     content |-> "hi", fileUrl |-> "", deliveredAt |-> 0, isRead |-> FALSE,
     readAt |-> None]

InitRead ==
    /\ connected = Conns
    /\ userId = [s \in Conns |-> TokenUser(s)]
    /\ rooms = [s \in Conns |->
                  {JoinRoomName(cv) : cv \in {c \in Convs : findConversation(c, TokenUser(s))}}]
    /\ isOnline = [u \in Users |-> \E s \in Conns : TokenUser(s) = u]
    /\ messages = <<StoredMessage(101, "cv1", "u1"), StoredMessage(102, "cv2", "u1")>>
    /\ readReceipts = {}
    /\ userActivity = {}
    /\ refreshTokens = {}
    /\ tasks = <<>>
    /\ log = <<>>
    /\ fails = 0
    /\ now = 0
    /\ held = {}
    /\ joined = {<<s, room>> \in Conns \X {JoinRoomName(cv) : cv \in Convs} :
                   findConversation(room[1], TokenUser(s))}
    /\ client = SignedIn("fresh")

\* the ids a client asks about: the two stored messages and one that is not
\* in the store
MessageIds == {101, 102, 404}

MarkRead == EstablishedCanStart /\ \E s \in {"s1", "s2"}, id \in MessageIds : mark_read(s, id)
MarkReadFind == \E t \in TaskIds : mark_read_findFirst(t)
MarkReadUpdate == \E t \in TaskIds : mark_read_update(t)
MarkReadUpsert == \E t \in TaskIds : mark_read_upsert(t)
MarkConversationRead ==
    EstablishedCanStart /\ \E s \in {"s1", "s2"}, cv \in Convs : mark_conversation_read(s, cv)
MarkConversationReadFind == \E t \in TaskIds : mark_conversation_read_findFirst(t)
MarkConversationReadFindMany == \E t \in TaskIds : mark_conversation_read_findMany(t)
MarkConversationReadUpdate == \E t \in TaskIds : mark_conversation_read_updateMany(t)
MarkConversationReadCreate == \E t \in TaskIds : mark_conversation_read_createMany(t)

\* a minute passes
Tick ==
    /\ now < MaxClock
    /\ now' = now + 1
    /\ UNCHANGED <<connected, userId, rooms, isOnline, messages, readReceipts,
                   userActivity, refreshTokens, tasks, log, fails, held, joined, client>>

NextRead ==
    \/ MarkRead \/ MarkReadFind \/ MarkReadUpdate \/ MarkReadUpsert
    \/ MarkConversationRead \/ MarkConversationReadFind
    \/ MarkConversationReadFindMany \/ MarkConversationReadUpdate
    \/ MarkConversationReadCreate
    \/ Tick

SpecRead == InitRead /\ [][NextRead]_vars

\* mark_conversation_read while the other participant sends: the read
\* handlers of a conversation next to send_message, on the same store.
ReadSend == EstablishedCanStart /\ SendOf({TextMsg})

NextReadSend ==
    \/ MarkConversationRead \/ MarkConversationReadFind
    \/ MarkConversationReadFindMany \/ MarkConversationReadUpdate
    \/ MarkConversationReadCreate
    \/ ReadSend \/ SendFind \/ SendCreate \/ SendUpdate

SpecReadSend == InitRead /\ [][NextReadSend]_vars

Login == \E u \in {"u1", "u2"} : login(u)
LoginCreate == \E t \in TaskIds : login_create(t)
LoginUpdate == \E t \in TaskIds : login_update(t)
Refresh == \E token \in held \cup {Forged} : refresh(token)
RefreshFind == \E t \in TaskIds : refresh_findFirst(t)
RefreshDelete == \E t \in TaskIds : refresh_delete(t)
RefreshCreate == \E t \in TaskIds : refresh_create(t)
Logout == \E u \in Users : logout(u)
LogoutDelete == \E t \in TaskIds : logout_deleteMany(t)
LogoutUpdate == \E t \in TaskIds : logout_update(t)
WeekPasses == Advance(RefreshTTL)

NextAuth ==
    \/ Login \/ LoginCreate \/ LoginUpdate
    \/ Refresh \/ RefreshFind \/ RefreshDelete \/ RefreshCreate
    \/ Logout \/ LogoutDelete \/ LogoutUpdate
    \/ WeekPasses

SpecAuth == Init /\ [][NextAuth]_vars

\* u1 has logged in once (POST /login has run to completion): its refresh
\* JWT is with the client and its row is in the store.
InitSignedIn ==
    /\ connected = {}
    /\ userId = [s \in Conns |-> None]
    /\ rooms = [s \in Conns |-> {}]
    /\ isOnline = [u \in Users |-> u = "u1"]
    /\ messages = <<>>
    /\ readReceipts = {}
    /\ userActivity = {}
    /\ refreshTokens = {[id |-> 0, userId |-> "u1", expiresAt |-> RefreshTTL]}
    /\ tasks = <<>>
    /\ log = <<>>
    /\ fails = 0
    /\ now = 0
    /\ held = {[userId |-> "u1", jti |-> 0, exp |-> RefreshTTL, sig |-> "ok"]}
    /\ joined = {}
    /\ client = SignedIn("fresh")

SpecSession == InitSignedIn /\ [][NextAuth]_vars

InitClient ==
    /\ connected = {}
    /\ userId = [s \in Conns |-> None]
    /\ rooms = [s \in Conns |-> {}]
    /\ isOnline = [u \in Users |-> FALSE]
    /\ messages = <<>>
    /\ readReceipts = {}
    /\ userActivity = {}
    /\ refreshTokens = {}
    /\ tasks = <<>>
    /\ log = <<>>
    /\ fails = 0
    /\ now = 0
    /\ held = {}
    /\ joined = {}
    /\ client \in {SignedIn("fresh"), SignedIn("expired")}

Handshake == \E outcome \in HandshakeOutcomes : ClientHandshake(outcome)
Response ==
    \E p \in 1..Len(client.requests), outcome \in {"200", "401", "error"} :
        RefreshResponse(p, outcome)

NextClient ==
    \/ ClientConnect \/ ClientEnsureDone \/ Handshake \/ ClientRefreshDone
    \/ ClientTimer \/ ClientApi401 \/ ClientExpire \/ Response

SpecClient == InitClient /\ [][NextClient]_vars

\* The client when every response arrives and every callback that can run
\* does run: the browser's event loop starves no callback.
FairClient == SpecClient /\ WF_vars(NextClient)

\* the client with the chat view on top of it
Open == \E cv \in Convs : ViewOpen(cv)

NextHook == NextClient \/ Open \/ ViewClose \/ ViewResubscribe \/ ClientDrop

SpecHook == InitClient /\ [][NextHook]_vars

\* the typing hook of a signed-in client
NextUseTyping == Keystroke \/ StopTyping \/ ForceStopTyping \/ TypingTime

SpecUseTyping == InitClient /\ [][NextUseTyping]_vars

(***************************************************************************)
(* Properties                                                              *)
(***************************************************************************)
LogIdx == 1..Len(log)
EmittedFor(ev, t) == {i \in LogIdx : log[i].ev = ev /\ log[i].task = t}

\* C1, as stated: if a socket of A and a socket of B are subscribed to the
\* room when A's send_message passes validation and no store operation fails,
\* B's socket is sent message_received for the message and A's originating
\* socket is sent message_delivered (sockets that have closed since are not
\* held against the claim).
C1_SubscribersAtValidationReceive ==
    \A t \in TaskIds :
        (tasks[t].kind = "send" /\ tasks[t].res = "ok") =>
            LET a == userId[tasks[t].conn]
                subs == tasks[t].snap
                bs == {b \in subs \cap connected : userId[b] # a}
            IN ((\E c \in subs : userId[c] = a) /\ bs # {}
                    /\ tasks[t].conn \in connected) =>
                   /\ \A b \in bs :
                          \E i \in EmittedFor("message_received", t) : b \in log[i].to
                   /\ \E i \in EmittedFor("message_delivered", t) :
                          tasks[t].conn \in log[i].to

\* C1, amended: when a send_message whose store operations all succeeded
\* reaches its emits, every socket of another user that is subscribed to the
\* room at that moment is sent message_received for the message, and the
\* originating socket, if still open, is sent message_delivered.
C1_SubscribersAtBroadcastReceive ==
    [][\A t \in TaskIds :
          (At(t, "send", "update") /\ tasks'[t].res = "ok") =>
              LET room == ConversationRoom(tasks[t].conv)
                  new == (Len(log) + 1)..Len(log')
              IN /\ \A b \in {c \in InRoom(room) : userId[c] # userId[tasks[t].conn]} :
                        \E i \in new : /\ log'[i].ev = "message_received"
                                        /\ log'[i].task = t
                                        /\ b \in log'[i].to
                 /\ tasks[t].conn \in connected =>
                        \E i \in new : /\ log'[i].ev = "message_delivered"
                                        /\ log'[i].task = t
                                        /\ tasks[t].conn \in log'[i].to]_vars

C1_Witness ==
    \E t \in TaskIds :
        /\ tasks[t].kind = "send" /\ tasks[t].res = "ok"
        /\ \E i \in EmittedFor("message_received", t) :
               \E b \in log[i].to : userId[b] # userId[tasks[t].conn]
        /\ \E i \in EmittedFor("message_delivered", t) : tasks[t].conn \in log[i].to

\* C2: whenever no handler is in flight, no store operation has failed and no
\* client has sent user_offline, a user is marked online iff one of its
\* authenticated sockets is open.
C2_OnlineIffConnected ==
    (/\ Quiescent /\ fails = 0
     /\ \A t \in TaskIds : tasks[t].kind # "user_offline") =>
        \A u \in Users : isOnline[u] <=> \E c \in connected : userId[c] = u

\* C3: of two /refresh calls with the same refresh token, the second made
\* after the first was answered 200, the second is answered 401.
C3_RefreshSingleUse ==
    \A t1, t2 \in TaskIds :
        (/\ tasks[t1].kind = "refresh" /\ tasks[t2].kind = "refresh"
         /\ tasks[t1].arg = tasks[t2].arg
         /\ tasks[t1].res = "200"
         /\ t1 \in tasks[t2].after
         /\ Done(t2))
        => tasks[t2].res = "401"

\* C4: every event emitted into a conversation room is emitted by a handler
\* of a socket that completed a successful join_conversation for that room
\* before.
RoomEvents == {"message_received", "message_read", "read_receipt_updated",
               "user_typing", "user_stopped_typing", "user_left_conversation"}

C4_EmitOnlyAfterJoin ==
    [][\A i \in (Len(log) + 1)..Len(log') :
          log'[i].ev \in RoomEvents => <<log'[i].by, log'[i].room>> \in joined]_vars

\* C5: a typing_start and the typing_stop that arrives right after it from
\* the same socket for the same conversation, once both handlers have
\* finished (no store operation failed, no other typing_start of that user
\* for the conversation), leave no userActivity row for the pair.
C5_StartThenStopLeavesNoEntry ==
    \A t1, t2 \in TaskIds :
        (/\ t2 = t1 + 1
         /\ tasks[t1].kind = "typing_start" /\ tasks[t2].kind = "typing_stop"
         /\ tasks[t1].conn = tasks[t2].conn /\ tasks[t1].conv = tasks[t2].conv
         /\ Done(t1) /\ Done(t2) /\ fails = 0
         /\ \A t3 \in TaskIds \ {t1} :
                ~(/\ tasks[t3].kind = "typing_start"
                  /\ tasks[t3].conv = tasks[t1].conv
                  /\ userId[tasks[t3].conn] = userId[tasks[t1].conn]))
        => ~\E a \in userActivity : /\ a.userId = userId[tasks[t1].conn]
                                     /\ a.conversationId = tasks[t1].conv

\* C6: when the cleanup of a disconnect has run, user_stopped_typing has been
\* emitted into each room the socket was subscribed to in which its user was
\* typing (and that had another subscriber), and into none of its other rooms.
C6_DisconnectStopsTyping ==
    \A t \in TaskIds :
        (tasks[t].kind = "disconnect" /\ tasks[t].res = "ok") =>
            \A cv \in Convs :
                LET room == ConversationRoom(cv)
                    stops == {i \in EmittedFor("user_stopped_typing", t) : log[i].room = room}
                IN room \in tasks[t].snap.hadRooms =>
                       IF cv \in tasks[t].snap.typingIn
                       THEN room \in tasks[t].snap.peerRooms => stops # {}
                       ELSE stops = {}

\* C7: when the cleanup of a disconnect has run, the socket is in none of the
\* rooms it was subscribed to, and user_left_conversation has been emitted
\* into each of them that had another subscriber.
C7_DisconnectLeavesRooms ==
    \A t \in TaskIds :
        (tasks[t].kind = "disconnect" /\ tasks[t].res = "ok") =>
            \A room \in tasks[t].snap.hadRooms :
                /\ room \notin rooms[tasks[t].conn]
                /\ room \in tasks[t].snap.peerRooms =>
                       \E i \in EmittedFor("user_left_conversation", t) : log[i].room = room

\* C8: within one conversation the message_received broadcasts are in the
\* order in which the messages were persisted.
MessagePos(id) == CHOOSE k \in 1..Len(messages) : messages[k].id = id

C8_BroadcastInPersistenceOrder ==
    \A i, j \in LogIdx :
        (/\ i < j
         /\ log[i].ev = "message_received" /\ log[j].ev = "message_received"
         /\ log[i].room = log[j].room)
        => MessagePos(log[i].task) < MessagePos(log[j].task)

\* C9: every message_delivered is preceded in the emission order by the
\* message_received broadcast of the same message, and every successful
\* send_message has emitted both.
C9_DeliveredAfterReceived ==
    /\ \A i \in LogIdx :
           log[i].ev = "message_delivered" =>
               \E j \in 1..(i - 1) : /\ log[j].ev = "message_received"
                                     /\ log[j].task = log[i].task
    /\ \A t \in TaskIds :
           (tasks[t].kind = "send" /\ tasks[t].res = "ok") =>
               /\ EmittedFor("message_received", t) # {}
               /\ EmittedFor("message_delivered", t) # {}

C9_Witness ==
    \E i \in LogIdx : log[i].ev = "message_delivered" /\ log[i].to # {}

\* C10: a send_message whose message.create failed has emitted no
\* message_received and no message_delivered, and nothing but one error event
\* to its own socket; and every message_received carries a persisted message.
C10_NoBroadcastWithoutPersistence ==
    /\ \A i \in LogIdx :
           log[i].ev = "message_received" =>
               \E k \in 1..Len(messages) : messages[k].id = log[i].task
    /\ \A t \in TaskIds :
           (tasks[t].kind = "send" /\ tasks[t].pc = "create" /\ tasks[t].res = "failed") =>
               /\ \A i \in LogIdx :
                      log[i].task = t =>
                          log[i].ev = "error" /\ log[i].to \subseteq {tasks[t].conn}
               /\ Cardinality(EmittedFor("error", t)) = 1

C10_Witness ==
    \E t \in TaskIds :
        /\ tasks[t].kind = "send" /\ tasks[t].pc = "create" /\ tasks[t].res = "failed"
        /\ \E i \in EmittedFor("error", t) : log[i].to = {tasks[t].conn}
\* C11: a send_message of a participant passes the content checks iff its
\* payload is a text with content or a non-text with a file reference; a
\* rejected one has emitted one error to its socket and nothing else, and has
\* persisted nothing; an accepted one whose store operations succeeded is
\* persisted and broadcast.
WellFormed(messageData) ==
    \/ messageData.messageType = "text" /\ messageData.content # ""
    \/ messageData.messageType # "text" /\ messageData.fileUrl # ""

Persisted(t) == \E k \in 1..Len(messages) : messages[k].id = t

C11_PayloadValidation ==
    \A t \in TaskIds :
        (/\ tasks[t].kind = "send"
         /\ findConversation(tasks[t].conv, userId[tasks[t].conn])
         /\ tasks[t].pc # "findFirst") =>
            /\ tasks[t].res # "rejected" <=> WellFormed(tasks[t].arg)
            /\ tasks[t].res = "rejected" =>
                   /\ ~Persisted(t)
                   /\ \A i \in LogIdx : log[i].task = t =>
                          log[i].ev = "error" /\ log[i].to \subseteq {tasks[t].conn}
                   /\ Cardinality(EmittedFor("error", t)) = 1
            /\ tasks[t].res = "ok" =>
                   Persisted(t) /\ EmittedFor("message_received", t) # {}

C11_Witness ==
    /\ \E t \in TaskIds : /\ tasks[t].kind = "send" /\ tasks[t].arg = FileMsg
                           /\ tasks[t].res = "ok" /\ Persisted(t)
    /\ \E t \in TaskIds : /\ tasks[t].kind = "send" /\ tasks[t].arg = EmptyText
                           /\ findConversation(tasks[t].conv, userId[tasks[t].conn])
                           /\ tasks[t].res = "rejected"
                           /\ EmittedFor("error", t) # {}
\* C12: a join_conversation of a socket whose user is not a participant
\* changes no socket's rooms and emits no user_joined_conversation; and every
\* socket subscribed to a conversation room belongs to a participant of the
\* conversation.
SubscribersAreParticipants ==
    \A s \in Conns, cv \in Convs :
        ConversationRoom(cv) \in rooms[s] => userId[s] \in Participants(cv)

C12_NonParticipantJoinRejected ==
    [][/\ SubscribersAreParticipants /\ SubscribersAreParticipants'
       /\ \A t \in TaskIds :
              (/\ At(t, "join", "findFirst") /\ tasks'[t].res # None
               /\ userId[tasks[t].conn] \notin Participants(tasks[t].conv)) =>
                  /\ rooms' = rooms
                  /\ \A i \in (Len(log) + 1)..Len(log') :
                         log'[i].ev # "user_joined_conversation"]_vars

C12_Witness ==
    \E t \in TaskIds :
        /\ tasks[t].kind = "join" /\ tasks[t].res = "rejected"
        /\ userId[tasks[t].conn] \notin Participants(tasks[t].conv)
        /\ \E i \in EmittedFor("error", t) : log[i].to = {tasks[t].conn}
        /\ ConversationRoom(tasks[t].conv) \notin rooms[tasks[t].conn]
\* C13: a mark_read of the sender of the message ends at its first step
\* without changing the message table or the receipt table and without
\* emitting a read event; and no receipt belongs to the sender of its message.
SenderOf(messageId) == {messages[k].senderId : k \in FindMessage(messageId)}

NoReceiptOfSender ==
    \A r \in readReceipts : r.userId \notin SenderOf(r.messageId)

C13_SelfReadChangesNothing ==
    [][/\ NoReceiptOfSender /\ NoReceiptOfSender'
       /\ \A t \in TaskIds :
              (/\ At(t, "mark_read", "findFirst")
               /\ tasks'[t].pc # "findFirst" \/ tasks'[t].res # None
               /\ userId[tasks[t].conn] \in SenderOf(tasks[t].arg)) =>
                  /\ tasks'[t].res # None
                  /\ messages' = messages
                  /\ readReceipts' = readReceipts
                  /\ \A i \in (Len(log) + 1)..Len(log') :
                         log'[i].ev \notin {"message_read", "read_receipt_updated"}]_vars

C13_Witness ==
    /\ \E t \in TaskIds :
           /\ tasks[t].kind = "mark_read" /\ tasks[t].res = "ignored"
           /\ userId[tasks[t].conn] \in SenderOf(tasks[t].arg)
           /\ \A k \in FindMessage(tasks[t].arg) : ~messages[k].isRead
    /\ \E t \in TaskIds :
           /\ tasks[t].kind = "mark_conversation_read" /\ tasks[t].res = "ok"
           /\ tasks[t].conv = "cv1" /\ userId[tasks[t].conn] = "u1"
\* C14: of two mark_read calls of one non-sender participant on one message,
\* the second made after the first was carried out, the second is carried out
\* without an error unless a store operation throws, and once it is, the pair
\* (message, reader) has exactly one receipt, which carries the timestamp of
\* the second call (no third mark_read of the reader on the message).
ReceiptsOf(messageId, u) ==
    {r \in readReceipts : r.messageId = messageId /\ r.userId = u}

C14_MarkReadTwiceOneReceipt ==
    \A t1, t2 \in TaskIds :
        (/\ tasks[t1].kind = "mark_read" /\ tasks[t2].kind = "mark_read"
         /\ tasks[t1].arg = tasks[t2].arg
         /\ userId[tasks[t1].conn] = userId[tasks[t2].conn]
         /\ tasks[t1].res = "ok" /\ t1 \in tasks[t2].after
         /\ \A t3 \in TaskIds \ {t1, t2} :
                ~(/\ tasks[t3].kind = "mark_read" /\ tasks[t3].arg = tasks[t1].arg
                  /\ userId[tasks[t3].conn] = userId[tasks[t1].conn])) =>
            LET rows == ReceiptsOf(tasks[t1].arg, userId[tasks[t1].conn]) IN
            /\ Cardinality(rows) = 1
            /\ (Done(t2) /\ fails = 0) =>
                   tasks[t2].res = "ok" /\ EmittedFor("error", t2) = {}
            /\ tasks[t2].res = "ok" =>
                   \A r \in rows : r.readAt = tasks[t2].snap.at

C14_Witness ==
    \E t1, t2 \in TaskIds :
        /\ tasks[t1].kind = "mark_read" /\ tasks[t2].kind = "mark_read"
        /\ tasks[t1].arg = tasks[t2].arg
        /\ userId[tasks[t1].conn] = userId[tasks[t2].conn]
        /\ tasks[t1].res = "ok" /\ tasks[t2].res = "ok" /\ t1 \in tasks[t2].after
        /\ tasks[t1].snap.at < tasks[t2].snap.at
        /\ \E r \in readReceipts : r.readAt = tasks[t2].snap.at
\* C15: in one recovery of the socket the client runs at most one
\* refresh-and-reconnect round: the connect_error listener starts a refresh
\* only when no round has been run since the socket last connected, and the
\* count of rounds never exceeds one.
C15_OneRefreshAndRetry ==
    /\ client.sock = "refresh" => client.cycles = 0
    /\ client.cycles <= 1
\* C16: a call of refreshAccessToken made while a refresh request is in
\* flight sends no request and is handed the promise of the request in
\* flight; at most one refresh request is in flight at any time; and every
\* call that has been answered was answered with the outcome of the request
\* whose promise it was handed.
InFlight(c) == {p \in 1..Len(c.requests) : c.requests[p].state = "pending"}

C16_RefreshCoalesced ==
    [][/\ Cardinality(InFlight(client')) <= 1
       /\ (Len(client'.calls) > Len(client.calls) /\ InFlight(client) # {}) =>
              /\ Len(client'.requests) = Len(client.requests)
              /\ client'.calls[Len(client'.calls)].promise \in InFlight(client)
       /\ \A k \in 1..Len(client'.calls) :
              LET call == client'.calls[k] IN
              (call.promise # NoPromise /\ call.res # None) =>
                  /\ call.res = client'.requests[call.promise].state
                  /\ \A j \in 1..Len(client'.calls) :
                         client'.calls[j].promise = call.promise =>
                             client'.calls[j].res = call.res]_vars

C16_Witness ==
    \E j, k \in 1..Len(client.calls) :
        /\ j < k
        /\ client.calls[j].promise = client.calls[k].promise
        /\ client.calls[j].promise # NoPromise
        /\ client.calls[j].res = "ok" /\ client.calls[k].res = "ok"
        /\ Len(client.requests) = 1
\* C17: two /refresh calls that present the same token and overlap are not
\* both answered 200; and a rotation whose create does not take effect has
\* not taken its delete either (the row it read is still stored).
C17_RotationAtomic ==
    [][/\ \A t1, t2 \in 1..Len(tasks') :
              (/\ t1 < t2
               /\ tasks'[t1].kind = "refresh" /\ tasks'[t2].kind = "refresh"
               /\ tasks'[t1].arg = tasks'[t2].arg
               /\ t1 \notin tasks'[t2].after) =>
                  ~(tasks'[t1].res = "200" /\ tasks'[t2].res = "200")
       /\ \A t \in TaskIds :
              (At(t, "refresh", "create") /\ tasks'[t].res = "401") =>
                  tasks[t].snap \subseteq refreshTokens']_vars
\* C18: a /refresh call that arrives after a logout of user U was answered
\* and presents a refresh JWT issued to U before that logout arrived is
\* answered 401.
IssuedBefore(token, t) == token.jti = 0 \/ token.jti \in tasks[t].after

C18_LogoutRevokes ==
    \A lo, r \in TaskIds :
        (/\ tasks[lo].kind = "logout" /\ tasks[lo].res = "200"
         /\ tasks[r].kind = "refresh" /\ lo \in tasks[r].after
         /\ tasks[r].arg.userId = tasks[lo].arg
         /\ IssuedBefore(tasks[r].arg, lo)
         /\ Done(r))
        => tasks[r].res = "401"
\* C19: every join, send, typing or read operation that was turned down or
\* whose store operation threw has emitted an error event on its socket, and
\* its socket is still open unless the client closed it.
Operations == {"join", "send", "typing_start", "typing_stop",
               "mark_read", "mark_conversation_read"}

C19_FailuresReported ==
    \A t \in TaskIds :
        (tasks[t].kind \in Operations /\ tasks[t].res \in {"rejected", "ignored", "failed"}) =>
            /\ EmittedFor("error", t) # {}
            /\ \/ tasks[t].conn \in connected
               \/ \E d \in TaskIds : tasks[d].kind = "disconnect" /\ tasks[d].conn = tasks[t].conn
\* C20: when a user_online handler, or the cleanup of a disconnect or
\* user_offline, reaches its emits, every open socket of every accepted
\* friend of the user is sent friend_online, respectively friend_offline.
FriendSockets(u) == {c \in connected : userId[c] \in Friends(u)}

C20_FriendsNotified ==
    [][\A t \in TaskIds :
          (/\ tasks[t].kind \in {"user_online", "disconnect", "user_offline"}
           /\ tasks[t].pc = "findMany" /\ ~Done(t)
           /\ tasks'[t].res = "ok") =>
              LET ev == IF tasks[t].kind = "user_online" THEN "friend_online"
                                                          ELSE "friend_offline"
              IN \A c \in FriendSockets(userId[tasks[t].conn]) :
                     \E i \in (Len(log) + 1)..Len(log') :
                         /\ log'[i].ev = ev /\ log'[i].task = t
                         /\ c \in log'[i].to]_vars

\* C21: once POST /api/auth/refresh has been answered 401, every call of
\* refreshAccessToken that was handed the promise of that request is
\* eventually settled with an error, and the client is eventually logged out.
Answered401(c) == {p \in 1..Len(c.requests) : c.requests[p].state = "answered401"}

C21_RefreshFailureSettles ==
    (Answered401(client) # {}) ~>
        /\ ~client.isAuthenticated
        /\ \A k \in 1..Len(client.calls) :
               client.calls[k].promise \in Answered401(client) =>
                   client.calls[k].res \notin {None, "ok"}


\* C22: once the mark_conversation_read operations on a conversation have
\* all run to completion with no store operation failing, every message of
\* the conversation whose read flag is set has a ReadReceipt of its reader
\* and a message_read event that was emitted to the conversation's room.
MarkingDone(cv) ==
    \A t \in TaskIds :
        (tasks[t].kind = "mark_conversation_read" /\ tasks[t].conv = cv) => tasks[t].res = "ok"

Represented(m) ==
    /\ \E r \in readReceipts : r.messageId = m.id /\ r.userId # m.senderId
    /\ \E i \in LogIdx :
           /\ log[i].ev = "message_read"
           /\ log[i].messageId = m.id
           /\ log[i].room = ConversationRoom(m.conversationId)

C22_EveryMarkedMessageRepresented ==
    \A k \in 1..Len(messages) :
        (messages[k].isRead /\ MarkingDone(messages[k].conversationId)) =>
            Represented(messages[k])


\* C23: for a typing_start and a typing_stop of one user for one
\* conversation, the start having arrived first and both having been
\* carried out, the start's effect (its upsert and user_typing, which the
\* handler performs together) comes before the stop's effect (its deleteMany
\* and user_stopped_typing) in the order of emission.
C23_TypingEffectsInArrivalOrder ==
    \A t1, t2 \in TaskIds :
        (/\ t1 < t2
         /\ tasks[t1].kind = "typing_start" /\ tasks[t2].kind = "typing_stop"
         /\ userId[tasks[t1].conn] = userId[tasks[t2].conn]
         /\ tasks[t1].conv = tasks[t2].conv
         /\ tasks[t1].res = "ok" /\ tasks[t2].res = "ok")
        => \A i \in EmittedFor("user_typing", t1), j \in EmittedFor("user_stopped_typing", t2) :
               i < j


\* C24: handleUserOffline is invoked at most once for a connection, and only
\* for a connection that has closed.
OfflineRuns(s) == {t \in TaskIds : IsOffline(t) /\ tasks[t].conn = s}

C24_CleanupOncePerDisconnect ==
    \A s \in Conns :
        /\ Cardinality(OfflineRuns(s)) <= 1
        /\ OfflineRuns(s) # {} => s \notin connected


\* C25: when a socket's join_conversation(c) and the leave_conversation(c)
\* it emitted afterwards have both finished, and the socket has emitted no
\* join_conversation(c) since the leave, the socket is not subscribed to the
\* room of c.
C25_LeaveAfterJoinUnsubscribes ==
    \A t1, t2 \in TaskIds :
        (/\ t1 < t2
         /\ tasks[t1].kind = "join" /\ tasks[t2].kind = "leave"
         /\ tasks[t1].conn = tasks[t2].conn /\ tasks[t1].conv = tasks[t2].conv
         /\ Done(t1) /\ Done(t2)
         /\ \A t3 \in TaskIds :
                (t3 > t2 /\ tasks[t3].kind = "join" /\ tasks[t3].conn = tasks[t1].conn)
                    => tasks[t3].conv # tasks[t1].conv)
        => ConversationRoom(tasks[t1].conv) \notin rooms[tasks[t1].conn]


\* C26: on a socket that replaced an earlier one and has connected, once the
\* view has requested the room of the conversation it shows, exactly one
\* join_conversation for that conversation has been emitted on the socket
\* since the last leave_conversation for it on that socket.
JoinsSinceLeave(c, g, cv) ==
    LET about == {i \in 1..Len(c.emitted) : c.emitted[i].sock = g /\ c.emitted[i].conv = cv}
        leaves == {i \in about : c.emitted[i].ev = "leave_conversation"}
    IN {i \in about : /\ c.emitted[i].ev = "join_conversation"
                      /\ \A j \in leaves : j < i}

C26_ResubscribedOnceOnNewSocket ==
    (/\ client.socket >= 2
     /\ client.sock = "connected"
     /\ client.open # None
     /\ client.asked = client.socket)
    => Cardinality(JoinsSinceLeave(client, client.socket, client.open)) = 1


\* C27: when a send_message handler has finished, the message it stored (if
\* it stored one) has been broadcast as message_received to the room of its
\* conversation and acknowledged with message_delivered.
C27_PersistedIsBroadcast ==
    \A t \in TaskIds :
        (tasks[t].kind = "send" /\ Done(t) /\ Persisted(t)) =>
            /\ \E i \in EmittedFor("message_received", t) :
                   log[i].room = ConversationRoom(tasks[t].conv)
            /\ EmittedFor("message_delivered", t) # {}


\* C28: the callbacks of useTyping alternate, beginning with onStartTyping:
\* onStartTyping is never invoked twice without an onStopTyping in between
\* (a burst of keystrokes produces one start), and onStopTyping is invoked
\* only right after an onStartTyping (one stop per start, none without one).
C28_StartAndStopAlternate ==
    \A i \in 1..Len(client.typing.calls) :
        client.typing.calls[i] = IF i % 2 = 1 THEN "onStartTyping" ELSE "onStopTyping"


\* C29: every userActivity row is of a user who is a participant of the
\* row's conversation; and a typing_start whose sender is not a participant
\* of the conversation has, once it is over, emitted nothing at all (no
\* user_typing, no error) and ended without reaching the upsert.
NonParticipantTyping(t) ==
    /\ tasks[t].kind = "typing_start"
    /\ userId[tasks[t].conn] \notin Participants(tasks[t].conv)

C29_NonParticipantTypingIgnored ==
    /\ \A a \in userActivity : a.userId \in Participants(a.conversationId)
    /\ \A t \in TaskIds :
           NonParticipantTyping(t) =>
               /\ tasks[t].pc # "upsert"
               /\ \A i \in LogIdx : log[i].task # t
               /\ Done(t) => tasks[t].res \in {"ignored", "failed"}

C29_Witness ==
    \E t \in TaskIds :
        /\ NonParticipantTyping(t)
        /\ tasks[t].res = "ignored"
        /\ \E u \in TaskIds : tasks[u].kind = "typing_start" /\ tasks[u].res = "ok"


\* C30: the step in which a run of the sweep is carried out removes the
\* userActivity rows whose lastActivity is more than five minutes before the
\* time the run started, and no other row; the rows that stay are unchanged;
\* and neither that step, nor the start of a run, nor a run that fails,
\* emits an event.
SweepSteps == {t \in TaskIds : tasks[t].kind = "sweep" /\ tasks[t].res = None}

C30_SweepDeletesExactlyStale ==
    [][/\ \A t \in SweepSteps :
              tasks'[t].res = "ok" =>
                  /\ \A a \in userActivity :
                         a \in userActivity' <=>
                             tasks[t].snap.at - a.lastActivity <= 5
                  /\ userActivity' \subseteq userActivity
                  /\ log' = log
       /\ \A t \in SweepSteps : tasks'[t].res = "failed" =>
              userActivity' = userActivity /\ log' = log
       /\ (\E t \in 1..Len(tasks') : t > Len(tasks) /\ tasks'[t].kind = "sweep") =>
              userActivity' = userActivity /\ log' = log]_vars

\* a run has removed the row of one user and kept the row, exactly five
\* minutes old, that a typing_start of the other had refreshed
C30_Witness ==
    \E t, fresh \in TaskIds :
        /\ tasks[t].kind = "sweep" /\ tasks[t].res = "ok"
        /\ tasks[fresh].kind = "typing_start" /\ tasks[fresh].res = "ok"
        /\ Cardinality(userActivity) = 1
        /\ \E a \in userActivity : /\ a.userId = userId[tasks[fresh].conn]
                                    /\ a.conversationId = tasks[fresh].conv
                                    /\ a.lastActivity = tasks[t].snap.at - 5
====
